---- MODULE Spec2Model ----
(***************************************************************************)
(* Preprocessor-level model of Sources/CSQLCipher/include/                 *)
(* sqlcipher_extras.h.                                                     *)
(*                                                                         *)
(* The state is one translation unit (or one module-interface scan) while  *)
(* the preprocessor walks through it: the macro table, the declarations    *)
(* seen so far, the symbols emitted to the object file, the places where a *)
(* #define hit an already defined macro, and the directives processed so   *)
(* far.  One action per directive; the header itself is the operator       *)
(* SqlcipherExtrasH, written line by line after the file.                  *)
(***************************************************************************)
EXTENDS Integers, Sequences, FiniteSets

VARIABLES macros, decls, objsyms, redefs, log

vars == <<macros, decls, objsyms, redefs, log>>

(* ------------------------------ bounds --------------------------------- *)

\* Number of directives of the translation unit that are explored.
MaxDirectives == 4

\* The consumer defines SQLITE_HAS_CODEC to an integer in 0..MaxVal.
MaxVal == 2

Values == 0..MaxVal

(* --------------------------- names and bodies -------------------------- *)

\* line 15/16: the include guard of the header.
SQLCIPHER_EXTRAS_H == "SQLCIPHER_EXTRAS_H"

\* line 18/19: the feature macro.
SQLITE_HAS_CODEC == "SQLITE_HAS_CODEC"

\* Some macro of the consumer that the header never mentions.
OTHER_MACRO == "CONSUMER_MACRO"

\* line 19: the replacement list of `#define SQLITE_HAS_CODEC 1`.
CodecDefault == 1

\* line 16: `#define SQLCIPHER_EXTRAS_H` has an empty replacement list.
EmptyBody == <<>>

IntBody(v) == <<v>>

\* The files a #define can come from.
ShimFile == "sqlcipher_extras.h"
ConsumerFile == "consumer"

\* lines 7-8: the declarations hidden behind `#ifdef SQLITE_HAS_CODEC`.
CodecGuardedAPIs == {"sqlite3_key", "sqlite3_rekey"}

\* A function the consumer's translation unit defines itself.
ConsumerSymbol == "consumer_fn"

(* ------------------------- preprocessor semantics ----------------------- *)

\* The macro table is a partial function: its domain is the defined macros.
NoMacros == [n \in {} |-> EmptyBody]

\* `#ifdef name` / `defined(name)`.
IsDefined(m, name) == name \in DOMAIN m

\* `#if name`: the macro expands to a nonzero integer constant.
IsTruthy(m, name) ==
    /\ name \in DOMAIN m
    /\ Len(m[name]) = 1
    /\ m[name][1] # 0

\* The translation unit as one record, so that a header is a function on it.
TU == [macros |-> macros, decls |-> decls, objsyms |-> objsyms, redefs |-> redefs]

\* `#define name body` met in `file`.  The new body replaces the old one; a
\* define that meets an already defined macro is recorded with its file.
DefineMacro(st, file, name, body) ==
    [st EXCEPT
        !.macros = [n \in (DOMAIN st.macros) \cup {name} |->
                        IF n = name THEN body ELSE st.macros[n]],
        !.redefs = IF name \in DOMAIN st.macros
                   THEN st.redefs \cup {<<file, name>>}
                   ELSE st.redefs]

\* `#undef name`.
UndefMacro(st, name) ==
    [st EXCEPT
        !.macros = [n \in (DOMAIN st.macros) \ {name} |-> st.macros[n]]]

(* --------------------------- sqlcipher_extras.h ------------------------- *)

\* Variants of lines 18-20 with a slip in them, used to show that the
\* properties below depend on the header's text.
\*   the #ifndef dropped: the header always defines the macro to 1
CodecBlockOverride(st) ==
    DefineMacro(st, ShimFile, SQLITE_HAS_CODEC, IntBody(CodecDefault))

\*   the #define dropped: the header never defines the macro
CodecBlockMissing(st) == st

\*   another replacement list
CodecBlockWrongValue(st) ==
    IF IsDefined(st.macros, SQLITE_HAS_CODEC)
    THEN st
    ELSE DefineMacro(st, ShimFile, SQLITE_HAS_CODEC, IntBody(CodecDefault + 1))

\* lines 18-20:  #ifndef SQLITE_HAS_CODEC / #define SQLITE_HAS_CODEC 1 / #endif
CodecBlock(st) ==
    IF IsDefined(st.macros, SQLITE_HAS_CODEC)
    THEN st
    ELSE DefineMacro(st, ShimFile, SQLITE_HAS_CODEC, IntBody(CodecDefault))

\* Variant of lines 16-20 that also declares and defines an object.
GuardedBodyWithStorage(st) ==
    [CodecBlock(DefineMacro(st, ShimFile, SQLCIPHER_EXTRAS_H, EmptyBody))
        EXCEPT !.decls = st.decls \cup {"sqlcipher_extras_marker"},
               !.objsyms = st.objsyms \cup {"sqlcipher_extras_marker"}]

\* lines 16-20: what is between the include guard's #ifndef and its #endif.
GuardedBody(st) ==
    CodecBlock(DefineMacro(st, ShimFile, SQLCIPHER_EXTRAS_H, EmptyBody))

\* Variant of lines 15-22 without the include guard's #ifndef.
SqlcipherExtrasHNoGuard(st) == GuardedBody(st)

\* lines 15-22: the whole header.
SqlcipherExtrasH(st) ==
    IF IsDefined(st.macros, SQLCIPHER_EXTRAS_H)
    THEN st
    ELSE GuardedBody(st)

(* ------------------------- sqlite_nio_sqlcipher.h ----------------------- *)

\* lines 6-8 of the header comment: the SQLCipher-specific APIs of
\* sqlite_nio_sqlcipher.h are behind `#ifdef SQLITE_HAS_CODEC`.
SqliteNioSqlcipherH(st) ==
    IF IsDefined(st.macros, SQLITE_HAS_CODEC)
    THEN [st EXCEPT !.decls = st.decls \cup CodecGuardedAPIs]
    ELSE st

(* ------------------------------ directives ------------------------------ *)

Dir(op, name, val) == [op |-> op, name |-> name, val |-> val]

DShim == Dir("include", ShimFile, 0)
DSqlcipher == Dir("include", "sqlite_nio_sqlcipher.h", 0)
DDefine(name, v) == Dir("define", name, v)
DUndef(name) == Dir("undef", name, 0)
DFunction == Dir("function", ConsumerSymbol, 0)

ConsumerMacros == {SQLITE_HAS_CODEC, SQLCIPHER_EXTRAS_H, OTHER_MACRO}

\* The values the consumer gives a macro: any of Values for the feature
\* macro, 1 (what -DNAME gives) for the others.
ConsumerValues(name) == IF name = SQLITE_HAS_CODEC THEN Values ELSE {1}

Install(st, d) ==
    /\ macros' = st.macros
    /\ decls' = st.decls
    /\ objsyms' = st.objsyms
    /\ redefs' = st.redefs
    /\ log' = Append(log, d)

(* -------------------------------- actions ------------------------------- *)

Init ==
    /\ macros = NoMacros
    /\ decls = {}
    /\ objsyms = {}
    /\ redefs = {}
    /\ log = <<>>

\* #include "sqlcipher_extras.h"
IncludeShim ==
    /\ Len(log) < MaxDirectives
    /\ Install(SqlcipherExtrasH(TU), DShim)

\* #include "sqlite_nio_sqlcipher.h"
IncludeSqlcipher ==
    /\ Len(log) < MaxDirectives
    /\ Install(SqliteNioSqlcipherH(TU), DSqlcipher)

\* The consumer's own `#define name v` (or -Dname=v when it comes first).
ConsumerDefine ==
    /\ Len(log) < MaxDirectives
    /\ \E name \in ConsumerMacros : \E v \in ConsumerValues(name) :
          Install(DefineMacro(TU, ConsumerFile, name, IntBody(v)), DDefine(name, v))

\* The consumer's own `#undef name`.
ConsumerUndef ==
    /\ Len(log) < MaxDirectives
    /\ \E name \in ConsumerMacros :
          Install(UndefMacro(TU, name), DUndef(name))

\* The consumer defines a function of its own: a declaration and a symbol.
ConsumerFunction ==
    /\ Len(log) < MaxDirectives
    /\ Install([TU EXCEPT !.decls = decls \cup {ConsumerSymbol},
                          !.objsyms = objsyms \cup {ConsumerSymbol}],
               DFunction)

Next ==
    \/ IncludeShim
    \/ IncludeSqlcipher
    \/ ConsumerDefine
    \/ ConsumerUndef
    \/ ConsumerFunction

Spec == Init /\ [][Next]_vars

(* ------------------------- reading the directive log -------------------- *)

LastDir == log[Len(log)]

\* The step just taken processed directive d.
Processes(d) == log' = Append(log, d)

\* The step just taken processed one of the module's public headers.
ProcessesPublicHeader == Processes(DShim) \/ Processes(DSqlcipher)

ShimIncluded == \E i \in 1..Len(log) : log[i] = DShim

ConsumerTouches(d, name) == d.op \in {"define", "undef"} /\ d.name = name

\* Nothing but the two headers decides SQLITE_HAS_CODEC: the consumer has no
\* #define or #undef of it, nor of the shim's include guard.
OnlyHeadersDecideCodec ==
    \A i \in 1..Len(log) :
        /\ ~ConsumerTouches(log[i], SQLITE_HAS_CODEC)
        /\ ~ConsumerTouches(log[i], SQLCIPHER_EXTRAS_H)

\* Everything before the last directive is a consumer #define of
\* SQLITE_HAS_CODEC (none at all: the macro is undefined).
PriorIsCodecPredefinition ==
    \A i \in 1..(Len(log) - 1) :
        log[i].op = "define" /\ log[i].name = SQLITE_HAS_CODEC

(* --------------------------------- C1 ----------------------------------- *)

\* C1 as stated: after the header has been included, whatever the prior state
\* of SQLITE_HAS_CODEC (undefined, or predefined by the consumer to any
\* integer), SQLITE_HAS_CODEC expands to a nonzero integer constant.
C1_NonzeroAfterInclusion ==
    (Len(log) > 0 /\ LastDir = DShim /\ PriorIsCodecPredefinition)
        => IsTruthy(macros, SQLITE_HAS_CODEC)

\* C1 amended: an inclusion that finds the include guard undefined leaves
\* SQLITE_HAS_CODEC defined, and nonzero unless the consumer had defined it to
\* 0, in which case it is still 0.
C1_DefinedAfterInclusion ==
    [][(Processes(DShim) /\ ~IsDefined(macros, SQLCIPHER_EXTRAS_H))
        => /\ IsDefined(macros', SQLITE_HAS_CODEC)
           /\ \/ IsTruthy(macros', SQLITE_HAS_CODEC)
              \/ /\ IsDefined(macros, SQLITE_HAS_CODEC)
                 /\ macros[SQLITE_HAS_CODEC] = IntBody(0)
                 /\ macros'[SQLITE_HAS_CODEC] = IntBody(0)]_vars

C1_Witness ==
    /\ log = <<DDefine(SQLITE_HAS_CODEC, 0), DShim>>
    /\ IsDefined(macros, SQLITE_HAS_CODEC)
    /\ ~IsTruthy(macros, SQLITE_HAS_CODEC)

(* --------------------------------- C2 ----------------------------------- *)

\* C2: if SQLITE_HAS_CODEC is defined with value v before an inclusion, it is
\* defined with exactly v after it.
C2_PriorDefinitionPreserved ==
    [][(Processes(DShim) /\ IsDefined(macros, SQLITE_HAS_CODEC))
        => /\ IsDefined(macros', SQLITE_HAS_CODEC)
           /\ macros'[SQLITE_HAS_CODEC] = macros[SQLITE_HAS_CODEC]]_vars

C2_Witness ==
    /\ log = <<DDefine(SQLITE_HAS_CODEC, 2), DShim>>
    /\ macros[SQLITE_HAS_CODEC] = IntBody(2)

(* --------------------------------- C3 ----------------------------------- *)

\* C3: no inclusion ever executes a #define of the header on a macro that is
\* already defined, and an inclusion that directly follows an inclusion
\* leaves the macro table as it was (so N inclusions give the table of the
\* first).
C3_InclusionIdempotent ==
    [][Processes(DShim)
        => /\ \A r \in redefs' \ redefs : r[1] # ShimFile
           /\ (Len(log) > 0 /\ LastDir = DShim) => macros' = macros]_vars

C3_Witness ==
    /\ log = <<DShim, DShim, DShim>>
    /\ redefs = {}
    /\ macros[SQLITE_HAS_CODEC] = IntBody(CodecDefault)

(* --------------------------------- C4 ----------------------------------- *)

\* C4: an inclusion that finds neither the include guard nor SQLITE_HAS_CODEC
\* defined (the first inclusion, SQLITE_HAS_CODEC not defined before it)
\* defines SQLITE_HAS_CODEC with exactly the value 1.
C4_DefaultIsOne ==
    [][(/\ Processes(DShim)
        /\ ~IsDefined(macros, SQLCIPHER_EXTRAS_H)
        /\ ~IsDefined(macros, SQLITE_HAS_CODEC))
        => /\ IsDefined(macros', SQLITE_HAS_CODEC)
           /\ macros'[SQLITE_HAS_CODEC] = IntBody(1)]_vars

C4_Witness ==
    /\ log = <<DShim>>
    /\ macros[SQLITE_HAS_CODEC] = IntBody(1)

(* --------------------------------- C5 ----------------------------------- *)

\* The consumer predefines SQLITE_HAS_CODEC to 0, includes the shim, and then
\* processes the SQLCipher public header (any number of times).
PredefinedZeroThenShim ==
    /\ Len(log) >= 2
    /\ log[1] = DDefine(SQLITE_HAS_CODEC, 0)
    /\ log[2] = DShim
    /\ \A i \in 3..Len(log) : log[i] = DSqlcipher

\* C5 as stated: the value stays 0 and the codec-guarded declarations stay
\* hidden when the SQLCipher public header is processed afterwards.
C5_ZeroKeepsApisHidden ==
    PredefinedZeroThenShim
        => /\ macros[SQLITE_HAS_CODEC] = IntBody(0)
           /\ decls \cap CodecGuardedAPIs = {}

\* C5 amended: the value stays 0, and because the guard is an #ifdef the
\* codec-guarded declarations are declared once the SQLCipher public header
\* has been processed afterwards (and not before).
C5_ZeroKeptApisDeclared ==
    PredefinedZeroThenShim
        => /\ macros[SQLITE_HAS_CODEC] = IntBody(0)
           /\ IF Len(log) >= 3
              THEN CodecGuardedAPIs \subseteq decls
              ELSE decls \cap CodecGuardedAPIs = {}

C5_Witness ==
    /\ PredefinedZeroThenShim
    /\ Len(log) >= 3
    /\ macros[SQLITE_HAS_CODEC] = IntBody(0)
    /\ "sqlite3_key" \in decls

(* --------------------------------- C6 ----------------------------------- *)

\* C6: an inclusion changes nothing but the macros SQLCIPHER_EXTRAS_H and
\* SQLITE_HAS_CODEC: the declarations, the object-file symbols and every
\* other macro are as before.
C6_OnlyTwoMacrosChange ==
    [][Processes(DShim)
        => /\ decls' = decls
           /\ objsyms' = objsyms
           /\ \A n \in ((DOMAIN macros) \cup (DOMAIN macros'))
                          \ {SQLCIPHER_EXTRAS_H, SQLITE_HAS_CODEC} :
                 /\ n \in DOMAIN macros
                 /\ n \in DOMAIN macros'
                 /\ macros'[n] = macros[n]]_vars

C6_Witness ==
    /\ log = <<DDefine(OTHER_MACRO, 1), DFunction, DShim>>
    /\ IsDefined(macros, OTHER_MACRO)
    /\ IsDefined(macros, SQLCIPHER_EXTRAS_H)
    /\ decls = {ConsumerSymbol}
    /\ objsyms = {ConsumerSymbol}

(* --------------------------------- C7 ----------------------------------- *)

\* C7: where nothing else defines SQLITE_HAS_CODEC, once the SQLCipher public
\* header has been processed after the shim sqlite3_key is declared, and in a
\* unit without the shim sqlite3_key is not declared.
C7_ShimMakesKeyVisible ==
    OnlyHeadersDecideCodec
        => /\ (Len(log) > 0 /\ LastDir = DSqlcipher /\ ShimIncluded)
                => "sqlite3_key" \in decls
           /\ ~ShimIncluded => "sqlite3_key" \notin decls

C7_Witness ==
    /\ log = <<DShim, DSqlcipher>>
    /\ "sqlite3_key" \in decls

(* --------------------------------- C8 ----------------------------------- *)

\* The shim is processed before some processing of the SQLCipher header.
ShimBeforeSqlcipher ==
    \E i \in 1..Len(log) : \E j \in (i + 1)..Len(log) :
        log[i] = DShim /\ log[j] = DSqlcipher

\* C8: in a scan where only the headers decide SQLITE_HAS_CODEC, the
\* codec-guarded declarations are in the interface exactly if the shim was
\* processed before the SQLCipher header; otherwise none of them is, even
\* when the shim is processed later.
C8_ShimMustPrecede ==
    OnlyHeadersDecideCodec
        => IF ShimBeforeSqlcipher
           THEN CodecGuardedAPIs \subseteq decls
           ELSE decls \cap CodecGuardedAPIs = {}

C8_Witness ==
    /\ log = <<DSqlcipher, DShim>>
    /\ IsDefined(macros, SQLITE_HAS_CODEC)
    /\ decls \cap CodecGuardedAPIs = {}

(* --------------------------------- C9 ----------------------------------- *)

\* C9 as stated: whenever a public header is processed after the shim has
\* been included at least once, SQLITE_HAS_CODEC is a nonzero integer,
\* whatever the consumer's #define / #undef directives in between.
C9_TruthyAtEveryHeader ==
    [][(ProcessesPublicHeader /\ ShimIncluded)
        => IsTruthy(macros, SQLITE_HAS_CODEC)]_vars

\* The consumer never #undefs SQLITE_HAS_CODEC, never defines it to 0, and
\* never defines the shim's include guard itself.
ConsumerKeepsCodec ==
    \A i \in 1..Len(log) :
        /\ log[i] # DUndef(SQLITE_HAS_CODEC)
        /\ log[i] # DDefine(SQLITE_HAS_CODEC, 0)
        /\ ~(log[i].op = "define" /\ log[i].name = SQLCIPHER_EXTRAS_H)

\* C9 amended: the same, for the sequences of directives in which the
\* consumer keeps SQLITE_HAS_CODEC (ConsumerKeepsCodec).
C9_TruthyUnlessConsumerClears ==
    [][(ProcessesPublicHeader /\ ShimIncluded /\ ConsumerKeepsCodec)
        => IsTruthy(macros, SQLITE_HAS_CODEC)]_vars

C9_Witness ==
    /\ log = <<DShim, DUndef(SQLCIPHER_EXTRAS_H), DDefine(SQLITE_HAS_CODEC, 2), DSqlcipher>>
    /\ macros[SQLITE_HAS_CODEC] = IntBody(2)
    /\ "sqlite3_key" \in decls

(* --------------------------------- C10 ---------------------------------- *)

\* C10: an inclusion that finds the include guard defined changes nothing,
\* and an inclusion defines SQLITE_HAS_CODEC only if it also defines the
\* include guard.
C10_GuardedInclusionIsNoOp ==
    [][Processes(DShim)
        => /\ IsDefined(macros, SQLCIPHER_EXTRAS_H)
                => (macros' = macros /\ decls' = decls
                    /\ objsyms' = objsyms /\ redefs' = redefs)
           /\ (~IsDefined(macros, SQLITE_HAS_CODEC)
               /\ IsDefined(macros', SQLITE_HAS_CODEC))
                => (~IsDefined(macros, SQLCIPHER_EXTRAS_H)
                    /\ IsDefined(macros', SQLCIPHER_EXTRAS_H))]_vars

C10_Witness ==
    /\ log = <<DShim, DUndef(SQLITE_HAS_CODEC), DShim>>
    /\ IsDefined(macros, SQLCIPHER_EXTRAS_H)
    /\ ~IsDefined(macros, SQLITE_HAS_CODEC)

====
